---- MODULE Spec2Model ----
(***************************************************************************)
(* Model of ic-agent/src/agent/http_transport.rs:                          *)
(* ReqwestHttpReplicaV2TransportImpl, its execute() send/retry loop, the   *)
(* PasswordManager it consults and the four ReplicaV2Transport operations. *)
(***************************************************************************)
EXTENDS Integers, Sequences, FiniteSets, TLC

\* ---------------------------------------------------------------- bounds
\* Largest number of requests one call may hand to the connector.
MaxAttempts == 3
\* Number of call slots of the transport.
NumCalls == 2

CallIds == 1..NumCalls

\* ------------------------------------------------------- value domains
None == <<>>
Some(x) == <<x>>

Schemes == {"http", "https"}
Hosts == {"localhost", "example.com", "127.0.0.1"}

\* (username, password) pairs as UTF-8 byte strings: ("a","b"), ("ab","c").
Credentials == { <<(<<97>>), (<<98>>)>>, <<(<<97, 98>>), (<<99>>)>> }
ProviderErrors == {"no terminal", "cancelled"}
ConnectorErrors == {"io"}

UNAUTHORIZED == 401
Statuses == {101, 200, 302, 401, 404, 503}
\* Content-Type header values a peer may send, in header-map order; a value
\* is a byte string ("a", "b", or the single opaque byte 0xC8).
ContentTypeHeaders == { <<>>, <<(<<97>>)>>, <<(<<200>>)>>, <<(<<98>>), (<<97>>)>> }
Bodies == { <<>>, <<1>> }
Envelopes == { <<7>>, <<8, 9>> }
\* Principals as raw bytes: the management canister and the anonymous one.
Principals == { <<>>, <<4>> }

VARIABLES
    url,              \* self.url
    password_manager, \* self.password_manager: None or Some("pm")
    pc,               \* position of each call inside its operation
    op,               \* the ReplicaV2Transport operation of each call
    args,             \* the arguments that operation was called with
    http_request,     \* execute's http_request
    response,         \* request()'s http_status / response_headers
    status,           \* execute's status
    headers,          \* execute's headers
    body,             \* execute's body
    result,           \* what execute returned
    ret,              \* what the operation returned to its caller
    peer,             \* the last response the peer produced for each call
    trace             \* per call: requests sent, responses, provider calls

vars == <<url, password_manager, pc, op, args, http_request, response, status,
          headers, body, result, ret, peer, trace>>

\* ------------------------------------------------------- pure functions
\* base64::encode with the standard alphabet; a symbol is its index 0..63
\* and 64 stands for the padding character.
RECURSIVE Base64Encode(_)
Base64Encode(b) ==
    IF Len(b) = 0 THEN <<>>
    ELSE IF Len(b) = 1 THEN
        << b[1] \div 4, (b[1] % 4) * 16, 64, 64 >>
    ELSE IF Len(b) = 2 THEN
        << b[1] \div 4, (b[1] % 4) * 16 + (b[2] \div 16), (b[2] % 16) * 4, 64 >>
    ELSE
        << b[1] \div 4, (b[1] % 4) * 16 + (b[2] \div 16),
           (b[2] % 16) * 4 + (b[3] \div 64), b[3] % 64 >>
        \o Base64Encode(SubSeq(b, 4, Len(b)))

\* Mutant: password and username swapped.
UserPass_Swapped(u, p) == p \o <<58>> \o u

\* format!("{}:{}", u, p)
UserPass(u, p) == u \o <<58>> \o p

\* format!("Basic {}", auth)
BasicHeader(u, p) == <<"Basic", Base64Encode(UserPass(u, p))>>

\* HeaderValue::to_str: Some(value) when every byte is visible ASCII or tab.
ToStr(value) ==
    IF \A i \in 1..Len(value) : (value[i] >= 32 /\ value[i] < 127) \/ value[i] = 9
    THEN Some(value) ELSE None

\* Mutant: the last Content-Type value is taken instead of the first.
ContentTypeOf_LastValue(hs) == IF Len(hs) = 0 THEN None ELSE ToStr(hs[Len(hs)])

\* headers.get(CONTENT_TYPE).and_then(|v| v.to_str().ok()).map(to_string)
ContentTypeOf(hs) == IF Len(hs) = 0 THEN None ELSE ToStr(hs[1])

\* StatusCode::is_client_error / is_server_error
IsClientError(s) == s >= 400 /\ s < 500
IsServerError(s) == s >= 500 /\ s < 600

\* Principal::to_text for the two principals of the model.
ToText(p) == IF p = <<>> THEN "aaaaa-aa" ELSE "2vxsx-fae"

\* Url::join of a relative path onto a url ending in '/'.
Join(base, segments) ==
    [scheme |-> base.scheme, host |-> base.host, path |-> base.path \o segments]

\* Results of the provider's operations.
POk(v) == [ok |-> TRUE, val |-> v, err |-> ""]
PErr(e) == [ok |-> FALSE, val |-> None, err |-> e]
\* Placeholder where no provider is configured and none is asked.
NoAnswer == POk(None)
CachedResults ==
    {POk(None)} \cup {POk(Some(c)) : c \in Credentials} \cup {PErr(e) : e \in ProviderErrors}
RequiredResults ==
    {POk(c) : c \in Credentials} \cup {PErr(e) : e \in ProviderErrors}

\* AgentError values and execute's Ok.
Ok(b) == [kind |-> "Ok", payload |-> b]
AuthenticationError(e) == [kind |-> "AuthenticationError", payload |-> e]
TransportError(e) == [kind |-> "TransportError", payload |-> e]
CannotUseAuthenticationOnNonSecureUrl ==
    [kind |-> "CannotUseAuthenticationOnNonSecureUrl", payload |-> None]
HttpError(s, ct, content) ==
    [kind |-> "HttpError",
     payload |-> [status |-> s, content_type |-> ct, content |-> content]]
NoResult == [kind |-> "none", payload |-> None]

\* Mutant: the provider is asked whether or not one is configured.
Consults_Always(pm) == TRUE

\* `if let Some(pm) = &self.password_manager`: is there a provider to ask?
Consults(pm) == pm # None

\* Mutant: the provider is asked about the transport's root url.
RequestUrl_Root(req) == [req.url EXCEPT !.path = <<"api", "v2">>]

\* http_request.url(), the url handed to cached() and required().
RequestUrl(req) == req.url

\* Mutant: a provider failure is taken as "no credential".
MaybeAddAuthorization_IgnoreError(req, cached, pm, answer) ==
    IF pm # None /\ answer.ok
    THEN LET up == IF cached THEN answer.val ELSE Some(answer.val)
         IN  IF up # None
             THEN [ok |-> TRUE,
                   req |-> [req EXCEPT !.authorization =
                                Some(BasicHeader(up[1][1], up[1][2]))],
                   err |-> NoResult]
             ELSE [ok |-> TRUE, req |-> req, err |-> NoResult]
    ELSE [ok |-> TRUE, req |-> req, err |-> NoResult]

\* Mutant: attaching a credential rebuilds the request and loses its body.
MaybeAddAuthorization_DropsBody(req, cached, pm, answer) ==
    IF ~Consults(pm) THEN [ok |-> TRUE, req |-> req, err |-> NoResult]
    ELSE IF ~answer.ok
    THEN [ok |-> FALSE, req |-> req, err |-> AuthenticationError(answer.err)]
    ELSE LET up == IF cached THEN answer.val ELSE Some(answer.val)
         IN  IF up # None
             THEN [ok |-> TRUE,
                   req |-> [req EXCEPT !.authorization =
                                           Some(BasicHeader(up[1][1], up[1][2])),
                                       !.body = None],
                   err |-> NoResult]
             ELSE [ok |-> TRUE, req |-> req, err |-> NoResult]

\* Mutant: a header that is already there is kept (entry().or_insert()).
MaybeAddAuthorization_KeepsFirst(req, cached, pm, answer) ==
    IF ~Consults(pm) THEN [ok |-> TRUE, req |-> req, err |-> NoResult]
    ELSE IF ~answer.ok
    THEN [ok |-> FALSE, req |-> req, err |-> AuthenticationError(answer.err)]
    ELSE LET up == IF cached THEN answer.val ELSE Some(answer.val)
         IN  IF up # None /\ req.authorization = None
             THEN [ok |-> TRUE,
                   req |-> [req EXCEPT !.authorization =
                                           Some(BasicHeader(up[1][1], up[1][2]))],
                   err |-> NoResult]
             ELSE [ok |-> TRUE, req |-> req, err |-> NoResult]

\* maybe_add_authorization: pm is self.password_manager, answer is what the
\* provider's cached()/required() returned (unused when pm is None).
\* Returns Ok(request) or Err(AgentError).
MaybeAddAuthorization(req, cached, pm, answer) ==
    IF ~Consults(pm) THEN [ok |-> TRUE, req |-> req, err |-> NoResult]
    ELSE
        LET maybe_user_pass ==
                IF cached THEN answer
                ELSE IF answer.ok THEN POk(Some(answer.val)) ELSE answer
        IN  IF ~maybe_user_pass.ok
            THEN [ok |-> FALSE, req |-> req,
                  err |-> AuthenticationError(maybe_user_pass.err)]
            ELSE IF maybe_user_pass.val # None
            THEN LET up == maybe_user_pass.val[1]
                 IN  [ok |-> TRUE,
                      req |-> [req EXCEPT !.authorization =
                                   Some(BasicHeader(up[1], up[2]))],
                      err |-> NoResult]
            ELSE [ok |-> TRUE, req |-> req, err |-> NoResult]

\* Mutant: every loopback spelling counts as local.
MayAuthenticate_AnyLoopback(u) ==
    u.scheme = "https" \/ u.host \in {"localhost", "127.0.0.1"}

\* Mutant: only the scheme is looked at.
MayAuthenticate_HttpsOnly(u) == u.scheme = "https"

\* Mutant: the loop looks for FORBIDDEN instead of UNAUTHORIZED.
IsUnauthorized_Forbidden(s) == s = 403

\* `status == reqwest::StatusCode::UNAUTHORIZED`
IsUnauthorized(s) == s = UNAUTHORIZED

\* The condition of execute under which a 401 leads to required().
MayAuthenticate(u) == u.scheme = "https" \/ u.host = "localhost"

\* ------------------------------------------------------------- trace
SendEv(req) == [ev |-> "send", arg |-> req]
ResponseEv(s) == [ev |-> "response", arg |-> s]
ErrorEv(e) == [ev |-> "error", arg |-> e]
ProviderEv(name, u, answer) == [ev |-> name, arg |-> [url |-> u, answer |-> answer]]

\* The events of one kind in a call's trace, and their number.
Events(c, name) == SelectSeq(trace[c], LAMBDA e : e.ev = name)
NumSends(c) == Len(Events(c, "send"))

\* --------------------------------------------------------------- Init
\* create(url) followed, or not, by with_password_manager(pm).
Init ==
    /\ url \in [scheme : Schemes, host : Hosts, path : {<<"api", "v2">>}]
    /\ password_manager \in {None, Some("pm")}
    /\ pc = [c \in CallIds |-> "idle"]
    /\ op = [c \in CallIds |-> "none"]
    /\ args = [c \in CallIds |-> None]
    /\ http_request = [c \in CallIds |-> None]
    /\ response = [c \in CallIds |-> None]
    /\ status = [c \in CallIds |-> 0]
    /\ headers = [c \in CallIds |-> <<>>]
    /\ body = [c \in CallIds |-> <<>>]
    /\ result = [c \in CallIds |-> NoResult]
    /\ ret = [c \in CallIds |-> NoResult]
    /\ peer = [c \in CallIds |-> None]
    /\ trace = [c \in CallIds |-> <<>>]

\* ------------------------------------------------------ the operations
\* The unit value of call()'s Ok(()).
Unit == "()"

\* What an operation makes of execute's result r: call() keeps a failure
\* (`?`) and replaces the body by (), the others return r as it is.
RouterReturn(o, r) ==
    IF o = "call" /\ r.kind = "Ok" THEN Ok(Unit) ELSE r

\* execute returns r to operation o of call c, which returns to its caller.
Return(c, o, r) ==
    /\ result' = [result EXCEPT ![c] = r]
    /\ ret' = [ret EXCEPT ![c] = RouterReturn(o, r)]

\* ------------------------------------------------------------ execute
\* execute(), from its entry up to the loop: build the request, consult
\* cached() when a provider is configured, set the body.
ExecuteBegin(c, o, a, method, endpoint, b) ==
    LET u == Join(url, endpoint)
        req0 == [method |-> method, url |-> u,
                 content_type |-> "application/cbor",
                 authorization |-> None, body |-> None]
        answers == IF Consults(password_manager) THEN CachedResults ELSE {NoAnswer}
    IN  /\ pc[c] = "idle"
        /\ op' = [op EXCEPT ![c] = o]
        /\ args' = [args EXCEPT ![c] = a]
        /\ \E answer \in answers :
             LET r == MaybeAddAuthorization(req0, TRUE, password_manager, answer)
                 t == IF Consults(password_manager)
                      THEN Append(trace[c], ProviderEv("cached", RequestUrl(req0), answer))
                      ELSE trace[c]
             IN  /\ trace' = [trace EXCEPT ![c] = t]
                 /\ IF r.ok
                    THEN /\ http_request' =
                               [http_request EXCEPT ![c] = [r.req EXCEPT !.body = b]]
                         /\ pc' = [pc EXCEPT ![c] = "send"]
                         /\ UNCHANGED <<result, ret>>
                    ELSE /\ http_request' = [http_request EXCEPT ![c] = r.req]
                         /\ pc' = [pc EXCEPT ![c] = "done"]
                         /\ Return(c, o, r.err)
        /\ UNCHANGED <<url, password_manager, response, status, headers, body, peer>>

\* The four ReplicaV2Transport operations.
Call(c) ==
    \E id \in Principals, envelope \in Envelopes :
        ExecuteBegin(c, "call", [id |-> id, envelope |-> envelope], "POST",
                     <<"canister", ToText(id), "call">>, Some(envelope))

ReadState(c) ==
    \E id \in Principals, envelope \in Envelopes :
        ExecuteBegin(c, "read_state", [id |-> id, envelope |-> envelope], "POST",
                     <<"canister", ToText(id), "read_state">>, Some(envelope))

\* Mutant: query() posts to the read_state endpoint.
Query_ReadStatePath(c) ==
    \E id \in Principals, envelope \in Envelopes :
        ExecuteBegin(c, "query", [id |-> id, envelope |-> envelope], "POST",
                     <<"canister", ToText(id), "read_state">>, Some(envelope))

Query(c) ==
    \E id \in Principals, envelope \in Envelopes :
        ExecuteBegin(c, "query", [id |-> id, envelope |-> envelope], "POST",
                     <<"canister", ToText(id), "query">>, Some(envelope))

Status(c) == ExecuteBegin(c, "status", None, "GET", <<"status">>, None)

\* Mutant: the Authorization header lives in state shared by the calls, so
\* a request goes out with the header of whichever call set it last.
Send_SharedAuthorization(c) ==
    /\ pc[c] = "send"
    /\ NumSends(c) < MaxAttempts
    /\ \E d \in CallIds :
         /\ pc[d] # "idle"
         /\ trace' = [trace EXCEPT ![c] =
                Append(@, SendEv([http_request[c] EXCEPT
                                    !.authorization = http_request[d].authorization]))]
    /\ pc' = [pc EXCEPT ![c] = "await_response"]
    /\ UNCHANGED <<url, password_manager, op, args, http_request, response, status,
                   headers, body, result, ret, peer>>

\* request(): the clone of http_request is handed to client.execute.
Send(c) ==
    /\ pc[c] = "send"
    /\ NumSends(c) < MaxAttempts
    /\ trace' = [trace EXCEPT ![c] = Append(@, SendEv(http_request[c]))]
    /\ pc' = [pc EXCEPT ![c] = "await_response"]
    /\ UNCHANGED <<url, password_manager, op, args, http_request, response, status,
                   headers, body, result, ret, peer>>

\* Mutant: a connector failure sends the request again.
ConnectorError_Retry(c) ==
    /\ pc[c] = "await_response"
    /\ \E e \in ConnectorErrors :
         trace' = [trace EXCEPT ![c] = Append(@, ErrorEv(e))]
    /\ pc' = [pc EXCEPT ![c] = "send"]
    /\ UNCHANGED <<url, password_manager, op, args, http_request, response, status,
                   headers, body, result, ret, peer>>

\* client.execute(..).await failed: TransportError leaves request() and,
\* through `?`, execute.
ConnectorError(c) ==
    /\ pc[c] = "await_response"
    /\ \E e \in ConnectorErrors :
         /\ trace' = [trace EXCEPT ![c] = Append(@, ErrorEv(e))]
         /\ Return(c, op[c], TransportError(e))
    /\ pc' = [pc EXCEPT ![c] = "done"]
    /\ UNCHANGED <<url, password_manager, op, args, http_request, response, status,
                   headers, body, peer>>

\* client.execute(..).await returned a response: status and headers are read.
ResponseHead(c) ==
    /\ pc[c] = "await_response"
    /\ \E s \in Statuses, hs \in ContentTypeHeaders, bytes \in Bodies :
         /\ peer' = [peer EXCEPT ![c] = [status |-> s, headers |-> hs, body |-> bytes]]
         /\ response' = [response EXCEPT ![c] =
                           [http_status |-> s, response_headers |-> hs]]
    /\ pc' = [pc EXCEPT ![c] = "await_bytes"]
    /\ UNCHANGED <<url, password_manager, op, args, http_request, status, headers,
                   body, result, ret, trace>>

\* response.bytes().await failed.
BytesError(c) ==
    /\ pc[c] = "await_bytes"
    /\ \E e \in ConnectorErrors :
         /\ trace' = [trace EXCEPT ![c] = Append(@, ErrorEv(e))]
         /\ Return(c, op[c], TransportError(e))
    /\ pc' = [pc EXCEPT ![c] = "done"]
    /\ UNCHANGED <<url, password_manager, op, args, http_request, response, status,
                   headers, body, peer>>

\* response.bytes().await returned: request() returns the triple and
\* execute stores it in status, headers, body.
ResponseBytes(c) ==
    /\ pc[c] = "await_bytes"
    /\ body' = [body EXCEPT ![c] = peer[c].body]
    /\ status' = [status EXCEPT ![c] = response[c].http_status]
    /\ headers' = [headers EXCEPT ![c] = response[c].response_headers]
    /\ trace' = [trace EXCEPT ![c] = Append(@, ResponseEv(response[c].http_status))]
    /\ pc' = [pc EXCEPT ![c] = "check_status"]
    /\ UNCHANGED <<url, password_manager, op, args, http_request, response, result, ret, peer>>

\* status == UNAUTHORIZED on an https or localhost url:
\* maybe_add_authorization(&mut http_request, false), then the loop repeats.
Reauthorize(c) ==
    LET answers == IF Consults(password_manager) THEN RequiredResults
                   ELSE {NoAnswer}
    IN  /\ pc[c] = "check_status"
        /\ IsUnauthorized(status[c])
        /\ MayAuthenticate(url)
        /\ \E answer \in answers :
             LET r == MaybeAddAuthorization(http_request[c], FALSE,
                                            password_manager, answer)
                 t == IF Consults(password_manager)
                      THEN Append(trace[c],
                                  ProviderEv("required", RequestUrl(http_request[c]),
                                             answer))
                      ELSE trace[c]
             IN  /\ trace' = [trace EXCEPT ![c] = t]
                 /\ http_request' = [http_request EXCEPT ![c] = r.req]
                 /\ IF r.ok
                    THEN /\ pc' = [pc EXCEPT ![c] = "send"]
                         /\ UNCHANGED <<result, ret>>
                    ELSE /\ pc' = [pc EXCEPT ![c] = "done"]
                         /\ Return(c, op[c], r.err)
        /\ UNCHANGED <<url, password_manager, op, args, response, status, headers, body, peer>>

\* Mutant: the loop gives up after the second request was rejected.
Refuse_RetryLimit(c) ==
    /\ pc[c] = "check_status"
    /\ IsUnauthorized(status[c])
    /\ ~MayAuthenticate(url) \/ NumSends(c) >= 2
    /\ Return(c, op[c], CannotUseAuthenticationOnNonSecureUrl)
    /\ pc' = [pc EXCEPT ![c] = "done"]
    /\ UNCHANGED <<url, password_manager, op, args, http_request, response, status,
                   headers, body, peer, trace>>

\* status == UNAUTHORIZED on any other url.
Refuse(c) ==
    /\ pc[c] = "check_status"
    /\ IsUnauthorized(status[c])
    /\ ~MayAuthenticate(url)
    /\ Return(c, op[c], CannotUseAuthenticationOnNonSecureUrl)
    /\ pc' = [pc EXCEPT ![c] = "done"]
    /\ UNCHANGED <<url, password_manager, op, args, http_request, response, status,
                   headers, body, peer, trace>>

\* Mutant: only a 2xx status counts as success.
Classify_OnlySuccess(s, hs, b) ==
    IF s >= 200 /\ s < 300 THEN Ok(b) ELSE HttpError(s, ContentTypeOf(hs), b)

\* The value execute returns once the loop is left.
Classify(s, hs, b) ==
    IF IsClientError(s) \/ IsServerError(s)
    THEN HttpError(s, ContentTypeOf(hs), b)
    ELSE Ok(b)

\* Mutant: a 5xx answer sends the request again instead of leaving the loop.
Finish_RetryServerError(c) ==
    /\ pc[c] = "check_status"
    /\ ~IsUnauthorized(status[c])
    /\ IF IsServerError(status[c])
       THEN /\ pc' = [pc EXCEPT ![c] = "send"]
            /\ UNCHANGED <<result, ret>>
       ELSE /\ Return(c, op[c], Classify(status[c], headers[c], body[c]))
            /\ pc' = [pc EXCEPT ![c] = "done"]
    /\ UNCHANGED <<url, password_manager, op, args, http_request, response, status,
                   headers, body, peer, trace>>

\* Any other status: break, then classify the last response.
Finish(c) ==
    /\ pc[c] = "check_status"
    /\ ~IsUnauthorized(status[c])
    /\ Return(c, op[c], Classify(status[c], headers[c], body[c]))
    /\ pc' = [pc EXCEPT ![c] = "done"]
    /\ UNCHANGED <<url, password_manager, op, args, http_request, response, status,
                   headers, body, peer, trace>>

Step(c) ==
    \/ Call(c)
    \/ ReadState(c)
    \/ Query(c)
    \/ Status(c)
    \/ Send(c)
    \/ ConnectorError(c)
    \/ ResponseHead(c)
    \/ BytesError(c)
    \/ ResponseBytes(c)
    \/ Reauthorize(c)
    \/ Refuse(c)
    \/ Finish(c)

\* One call at a time: the calls of Spec.
SingleCall == {1}

Next == \E c \in SingleCall : Step(c)

Spec == Init /\ [][Next]_vars

\* ------------------------------------------------- concurrent calls
\* Largest number of requests one call sends when calls run concurrently.
ConcAttempts == 2

\* The environment of the concurrent runs: every call is a status() on a
\* remote host with a provider; the peer answers 200 or 401 with no
\* Content-Type and an empty body, once all of it was sent; cached() finds
\* nothing; required() fails with one error only.
ConcCached == {POk(None)}
ConcRequired == {POk(cr) : cr \in Credentials} \cup {PErr("no terminal")}

ConcEnv ==
    \A c \in CallIds :
        /\ op[c] \in {"none", "status"}
        /\ NumSends(c) <= ConcAttempts
        /\ pc[c] = "await_bytes" =>
             /\ peer[c].status \in {200, 401}
             /\ peer[c].headers = <<>>
             /\ peer[c].body = <<>>
        /\ \A i \in DOMAIN trace[c] :
             /\ trace[c][i].ev = "cached" => trace[c][i].arg.answer \in ConcCached
             /\ trace[c][i].ev = "required" => trace[c][i].arg.answer \in ConcRequired

\* create(url).with_password_manager(pm) for a remote host.
InitConc ==
    /\ Init
    /\ url.host = "example.com"
    /\ password_manager # None

\* Any call may take the next step: the calls are futures polled in any
\* order, or tasks on different threads.
StepConc(c) ==
    \/ Status(c) /\ ConcEnv'
    \/ Send(c) /\ ConcEnv'
    \/ ConnectorError(c) /\ ConcEnv'
    \/ ResponseHead(c) /\ ConcEnv'
    \/ ResponseBytes(c) /\ ConcEnv'
    \/ Reauthorize(c) /\ ConcEnv'
    \/ Refuse(c) /\ ConcEnv'
    \/ Finish(c) /\ ConcEnv'

NextConc == \E c \in CallIds : StepConc(c)

SpecConc == InitConc /\ [][NextConc]_vars

\* ============================================================ claims
\* Vocabulary of the claims, stated on the url and the trace only.
Secure == url.scheme = "https"
Local == url.host = "localhost"
NumRequired(c) == Len(Events(c, "required"))
NumResponses(c) == Len(Events(c, "response"))
Num401(c) == Len(SelectSeq(trace[c], LAMBDA e : e.ev = "response" /\ e.arg = 401))
Last(q) == q[Len(q)]
Returned(c) == pc[c] = "done"

\* Inverse of base64 over the same symbols (64 is the padding).
RECURSIVE Base64Decode(_)
Base64Decode(t) ==
    IF Len(t) < 4 THEN <<>>
    ELSE (IF t[3] = 64 THEN << t[1] * 4 + (t[2] \div 16) >>
          ELSE IF t[4] = 64
               THEN << t[1] * 4 + (t[2] \div 16), (t[2] % 16) * 16 + (t[3] \div 4) >>
               ELSE << t[1] * 4 + (t[2] \div 16), (t[2] % 16) * 16 + (t[3] \div 4),
                       (t[3] % 4) * 64 + t[4] >>)
         \o Base64Decode(SubSeq(t, 5, Len(t)))

\* An Authorization header option that is Basic base64(user:pass) of cred.
IsBasicOf(auth, cred) ==
    /\ Len(auth) = 1
    /\ auth[1][1] = "Basic"
    /\ Base64Decode(auth[1][2]) = cred[1] \o <<58>> \o cred[2]

\* C1: no request carrying an Authorization header is handed to the
\* connector when the endpoint scheme is not https and the host is not
\* localhost, whatever cached() and required() return.
C1_NoCredentialsInClear ==
    \A c \in CallIds : \A i \in DOMAIN trace[c] :
        (trace[c][i].ev = "send" /\ ~Secure /\ ~Local)
            => trace[c][i].arg.authorization = None

\* C2: on an endpoint that is neither https nor localhost, a 401 on the first
\* attempt ends the call with CannotUseAuthenticationOnNonSecureUrl after
\* exactly one request; required() is never invoked, nothing is sent again.
C2_InsecureRefusedAfterOneRequest ==
    \A c \in CallIds :
        (~Secure /\ ~Local /\ Num401(c) >= 1)
            => /\ NumSends(c) = 1
               /\ NumRequired(c) = 0
               /\ pc[c] \in {"check_status", "done"}
               /\ Returned(c) => result[c] = CannotUseAuthenticationOnNonSecureUrl

C2_Witness ==
    \E c \in CallIds :
        /\ ~Secure /\ ~Local /\ Num401(c) = 1 /\ Returned(c)
        /\ result[c].kind = "CannotUseAuthenticationOnNonSecureUrl"

\* C3: with no provider configured, a 401 on an https or localhost endpoint
\* ends the call with AuthenticationError; the request is not sent again.
C3_NoProviderAborts ==
    \A c \in CallIds :
        (password_manager = None /\ (Secure \/ Local) /\ Num401(c) >= 1)
            => /\ NumSends(c) = 1
               /\ pc[c] \in {"check_status", "done"}
               /\ Returned(c) => result[c].kind = "AuthenticationError"
C3_Reached ==
    \E c \in CallIds :
        password_manager = None /\ (Secure \/ Local) /\ Num401(c) >= 1 /\ NumSends(c) = 2

IsAccepted(s) == s >= 200 /\ s < 300

\* The trace of a call that found nothing cached, was rejected once, got a
\* credential from required() and was then answered with a 2xx status.
C4_Case(c) ==
    /\ Secure /\ password_manager # None /\ Returned(c)
    /\ Len(trace[c]) >= 6
    /\ trace[c][1].ev = "cached" /\ trace[c][1].arg.answer = POk(None)
    /\ trace[c][2].ev = "send"
    /\ trace[c][3] = ResponseEv(401)
    /\ trace[c][4].ev = "required" /\ trace[c][4].arg.answer.ok
    /\ trace[c][5].ev = "send"
    /\ trace[c][6].ev = "response" /\ IsAccepted(trace[c][6].arg)

\* C4: secure endpoint, cached() returns None, required() returns a credential
\* the peer accepts: exactly two requests are sent, the first without
\* Authorization, the second with Basic base64(user:pass) of the credential
\* required() returned; required() is invoked once and the call returns the
\* body of the peer's second response.
C4_TwoRequestsThenSuccess ==
    \A c \in CallIds :
        C4_Case(c)
            => /\ Len(trace[c]) = 6
               /\ NumSends(c) = 2
               /\ NumRequired(c) = 1
               /\ trace[c][2].arg.authorization = None
               /\ IsBasicOf(trace[c][5].arg.authorization, trace[c][4].arg.answer.val)
               /\ result[c] = Ok(peer[c].body)

C4_Witness == \E c \in CallIds : C4_Case(c) /\ result[c].kind = "Ok"

\* No connector failure and no provider failure so far in the call.
NoFailure(c) ==
    \A i \in DOMAIN trace[c] :
        /\ trace[c][i].ev # "error"
        /\ trace[c][i].ev \in {"cached", "required"} => trace[c][i].arg.answer.ok

C5_Counts ==
    \A c \in CallIds :
        (Secure /\ password_manager # None /\ NoFailure(c))
            => /\ NumRequired(c) <= Num401(c)
               /\ NumSends(c) <= Num401(c) + 1
               /\ Returned(c) =>
                    /\ Last(trace[c]).ev = "response"
                    /\ Last(trace[c]).arg # 401
                    /\ NumSends(c) = Num401(c) + 1
                    /\ NumRequired(c) = Num401(c)
                    /\ result[c].kind \in {"Ok", "HttpError"}
                    /\ result[c].kind = "Ok" <=>
                         ~(Last(trace[c]).arg >= 400 /\ Last(trace[c]).arg < 600)

C5_NeverGivesUp ==
    \A c \in CallIds :
        (/\ Secure /\ password_manager # None
         /\ pc[c] = "check_status"
         /\ Last(trace[c]) = ResponseEv(401)
         /\ pc'[c] # pc[c])
            => /\ Last(trace'[c]).ev = "required"
               /\ Last(trace'[c]).arg.answer.ok => pc'[c] = "send"
               /\ ~Last(trace'[c]).arg.answer.ok => result'[c].kind = "AuthenticationError"

After401(c) ==
    /\ pc[c] \in {"send", "done"}
    /\ Len(trace[c]) > 0
    /\ Last(trace[c]) = ResponseEv(401) \/ Last(trace[c]).ev = "required"

LastSent(c) == Last(Events(c, "send")).arg

\* C6 as stated: on a 401, an https or localhost endpoint always makes
\* execute call required(url), overwrite Authorization with the returned
\* credential and send again; the call is refused iff neither holds.
C6_Original ==
    \A c \in CallIds :
        After401(c)
            => /\ (Secure \/ Local) =>
                    /\ Last(trace[c]).ev = "required"
                    /\ Last(trace[c]).arg.answer.ok =>
                         /\ pc[c] = "send"
                         /\ IsBasicOf(http_request[c].authorization,
                                      Last(trace[c]).arg.answer.val)
               /\ result[c] = CannotUseAuthenticationOnNonSecureUrl
                    <=> (~Secure /\ ~Local)

\* C6 (amended): on a 401 the branch is decided by the endpoint alone. On an
\* https or localhost endpoint with a provider, required(url) is called with
\* the url of the rejected request; a returned credential overwrites
\* Authorization and the request is sent again, a failure ends the call with
\* AuthenticationError. With no provider required() is not called. The call
\* is refused with CannotUseAuthenticationOnNonSecureUrl iff the endpoint is
\* neither https nor localhost.
C6_EscalationByEndpoint ==
    \A c \in CallIds :
        /\ After401(c) =>
            /\ ((Secure \/ Local) /\ password_manager # None) =>
                 /\ Last(trace[c]).ev = "required"
                 /\ Last(trace[c]).arg.url = LastSent(c).url
                 /\ Last(trace[c]).arg.answer.ok =>
                      /\ pc[c] = "send"
                      /\ IsBasicOf(http_request[c].authorization,
                                   Last(trace[c]).arg.answer.val)
                 /\ ~Last(trace[c]).arg.answer.ok =>
                      /\ Returned(c)
                      /\ result[c].kind = "AuthenticationError"
            /\ ((Secure \/ Local) /\ password_manager = None) =>
                 /\ Last(trace[c]) = ResponseEv(401)
                 /\ NumRequired(c) = 0
            /\ result[c] = CannotUseAuthenticationOnNonSecureUrl
                 <=> (~Secure /\ ~Local)
        /\ result[c].kind = "CannotUseAuthenticationOnNonSecureUrl" =>
            /\ ~Secure /\ ~Local
            /\ Last(trace[c]) = ResponseEv(401)
            /\ NumRequired(c) = 0

C6_Witness ==
    \E c \in CallIds :
        /\ ~Secure /\ Local /\ password_manager # None
        /\ After401(c) /\ pc[c] = "send"
        /\ Len(Events(c, "cached")[1].arg.answer.val) = 1
        /\ http_request[c].authorization # LastSent(c).authorization

\* C7: a failure of required() is terminal: execute returns
\* AuthenticationError carrying the provider's error, and nothing is sent
\* and no provider operation is invoked after it.
C7_RequiredFailureTerminal ==
    \A c \in CallIds : \A i \in DOMAIN trace[c] :
        (trace[c][i].ev = "required" /\ ~trace[c][i].arg.answer.ok)
            => /\ i = Len(trace[c])
               /\ Returned(c)
               /\ result[c].kind = "AuthenticationError"
               /\ result[c].payload = trace[c][i].arg.answer.err

C7_Witness ==
    \E c \in CallIds :
        /\ Returned(c) /\ NumRequired(c) = 2
        /\ ~Last(trace[c]).arg.answer.ok
        /\ result[c] = AuthenticationError("cancelled")

\* C8: a failure of cached(url) makes execute return AuthenticationError at
\* once: no request is sent and required() is never invoked.
C8_CachedFailureImmediate ==
    \A c \in CallIds : \A i \in DOMAIN trace[c] :
        (trace[c][i].ev = "cached" /\ ~trace[c][i].arg.answer.ok)
            => /\ Len(trace[c]) = 1
               /\ NumSends(c) = 0
               /\ NumRequired(c) = 0
               /\ Returned(c)
               /\ result[c].kind = "AuthenticationError"
               /\ result[c].payload = trace[c][i].arg.answer.err

C8_Witness ==
    \E c \in CallIds :
        /\ Returned(c) /\ Len(trace[c]) = 1 /\ trace[c][1].ev = "cached"
        /\ result[c] = AuthenticationError("no terminal")

\* C9: a connector failure on any attempt ends the call with TransportError:
\* the attempt is not retried, nothing more is sent and no provider
\* operation is invoked after the failure.
C9_TransportFailureTerminal ==
    \A c \in CallIds : \A i \in DOMAIN trace[c] :
        trace[c][i].ev = "error"
            => /\ i = Len(trace[c])
               /\ trace[c][i - 1].ev = "send"
               /\ Returned(c)
               /\ result[c] = TransportError(trace[c][i].arg)

C9_Witness ==
    \E c \in CallIds :
        /\ Returned(c) /\ result[c].kind = "TransportError"
        /\ NumSends(c) = 2 /\ NumRequired(c) = 1

\* The call returned on a response that is not a 401.
TerminalResponse(c) ==
    /\ Returned(c)
    /\ Len(trace[c]) > 0
    /\ Last(trace[c]).ev = "response"
    /\ peer[c].status # 401

VisibleAscii(v) == \A i \in DOMAIN v : v[i] = 9 \/ (v[i] >= 32 /\ v[i] <= 126)

\* C10 as stated: every terminal response that is neither 2xx nor 401 gives
\* an HttpError with the peer's status, Content-Type value (absent when the
\* peer sent none) and body.
C10_Original ==
    \A c \in CallIds :
        (TerminalResponse(c) /\ ~IsAccepted(peer[c].status))
            => result[c] = HttpError(peer[c].status,
                                     IF peer[c].headers = <<>> THEN None
                                     ELSE Some(peer[c].headers[1]),
                                     peer[c].body)

\* C10 (amended): every 4xx/5xx terminal response other than 401 gives an
\* HttpError whose status and body are those of the last response of the
\* peer, and whose content type is the first Content-Type value of that
\* response when it is visible ASCII, absent when the peer sent none or sent
\* other bytes.
C10_HttpErrorCarriesLastResponse ==
    \A c \in CallIds :
        (TerminalResponse(c) /\ peer[c].status >= 400 /\ peer[c].status <= 599)
            => /\ result[c].kind = "HttpError"
               /\ result[c].payload.status = peer[c].status
               /\ result[c].payload.content = peer[c].body
               /\ result[c].payload.content_type =
                    IF peer[c].headers = <<>> THEN None
                    ELSE IF VisibleAscii(peer[c].headers[1])
                         THEN Some(peer[c].headers[1]) ELSE None

C10_Witness ==
    \E c \in CallIds :
        /\ TerminalResponse(c) /\ Num401(c) >= 1
        /\ result[c].kind = "HttpError"
        /\ Len(peer[c].headers) = 2
        /\ result[c].payload.content_type = Some(peer[c].headers[1])

IsErrorStatus(s) == s >= 400 /\ s <= 599

\* C11: the terminal classification is total and by status range only: a
\* call whose loop ended on a status outside 4xx/5xx returns Ok with the body
\* of that last response, one that ended on 4xx/5xx returns HttpError;
\* Ok is never returned for a 4xx/5xx status, HttpError for no other.
C11_ClassificationByRange ==
    \A c \in CallIds :
        /\ TerminalResponse(c) =>
             IF IsErrorStatus(peer[c].status)
             THEN result[c].kind = "HttpError"
             ELSE result[c] = Ok(peer[c].body)
        /\ result[c].kind = "Ok" =>
             TerminalResponse(c) /\ ~IsErrorStatus(peer[c].status)
        /\ result[c].kind = "HttpError" =>
             TerminalResponse(c) /\ IsErrorStatus(peer[c].status)

C11_Witness ==
    \E c \in CallIds :
        /\ TerminalResponse(c) /\ peer[c].status = 302
        /\ result[c] = Ok(<<1>>) /\ Num401(c) >= 1

\* The textual form of the two principals.
PrincipalText(id) == IF Len(id) = 0 THEN "aaaaa-aa" ELSE "2vxsx-fae"

\* The wire request the operation of call c stands for, Authorization aside.
WireMethod(c) == IF op[c] = "status" THEN "GET" ELSE "POST"
WirePath(c) ==
    IF op[c] = "status" THEN <<"api", "v2", "status">>
    ELSE <<"api", "v2", "canister", PrincipalText(args[c].id), op[c]>>
WireBody(c) == IF op[c] = "status" THEN <<>> ELSE <<args[c].envelope>>

\* C12: call, read_state and query POST the envelope, unmodified, to
\* canister/<id-text>/call, /read_state and /query, status() GETs status
\* with no body, on every attempt; read_state, query and status return
\* execute's result unchanged, call returns () when execute succeeds and
\* execute's failure otherwise.
C12_OperationsMapToWire ==
    \A c \in CallIds :
        /\ pc[c] # "idle" => op[c] \in {"call", "read_state", "query", "status"}
        /\ \A i \in DOMAIN trace[c] :
             trace[c][i].ev = "send" =>
                /\ trace[c][i].arg.method = WireMethod(c)
                /\ trace[c][i].arg.url.scheme = url.scheme
                /\ trace[c][i].arg.url.host = url.host
                /\ trace[c][i].arg.url.path = WirePath(c)
                /\ trace[c][i].arg.body = WireBody(c)
        /\ Returned(c) =>
             IF op[c] = "call" /\ result[c].kind = "Ok"
             THEN ret[c].kind = "Ok" /\ ret[c].payload = "()"
             ELSE ret[c] = result[c] /\ ret[c].kind # "none"

C12_Witness ==
    \E c \in CallIds :
        /\ Returned(c) /\ op[c] = "call" /\ NumSends(c) = 2
        /\ args[c].envelope = <<8, 9>>
        /\ result[c].kind = "Ok" /\ result[c].payload = <<1>>
        /\ ret[c].payload = "()"

\* Everything one call owns.
CallState(c) ==
    <<pc[c], op[c], args[c], http_request[c], response[c], status[c],
      headers[c], body[c], result[c], ret[c], peer[c], trace[c]>>

\* The events before position i of trace t in which the provider handed out
\* a credential, and the credential of such an event.
CredentialEvents(t, i) ==
    { j \in 1..(i - 1) :
        \/ t[j].ev = "required" /\ t[j].arg.answer.ok
        \/ t[j].ev = "cached" /\ t[j].arg.answer.ok /\ Len(t[j].arg.answer.val) = 1 }
CredentialAt(t, j) ==
    IF t[j].ev = "required" THEN t[j].arg.answer.val ELSE t[j].arg.answer.val[1]
LatestOf(S) == CHOOSE j \in S : \A k \in S : k <= j

\* auth is what position i of trace t calls for: no header when the provider
\* has handed out nothing before i, else Basic of the latest credential.
CarriesLatest(auth, t, i) ==
    IF CredentialEvents(t, i) = {} THEN Len(auth) = 0
    ELSE IsBasicOf(auth, CredentialAt(t, LatestOf(CredentialEvents(t, i))))

\* What a returned call must have returned, read off its own trace and the
\* last response of its own peer.
OwnOutcome(c) ==
    LET l == Last(trace[c])
    IN  IF l.ev = "error" THEN result[c] = TransportError(l.arg)
        ELSE IF l.ev \in {"cached", "required"}
        THEN result[c] = AuthenticationError(l.arg.answer.err)
        ELSE /\ l.ev = "response"
             /\ IF l.arg = 401
                THEN result[c].kind = "CannotUseAuthenticationOnNonSecureUrl"
                ELSE IF IsErrorStatus(l.arg)
                THEN /\ result[c].kind = "HttpError"
                     /\ result[c].payload.status = l.arg
                     /\ result[c].payload.content = peer[c].body
                ELSE result[c] = Ok(peer[c].body)

\* Every request of a call, sent or about to be, carries the credential the
\* provider last returned to that call, and its outcome is that of its own
\* trace.
C13_OwnInputsOnly ==
    \A c \in CallIds :
        /\ \A i \in DOMAIN trace[c] :
             trace[c][i].ev = "send" =>
                CarriesLatest(trace[c][i].arg.authorization, trace[c], i)
        /\ pc[c] \in {"send", "await_response", "await_bytes", "check_status"} =>
             CarriesLatest(http_request[c].authorization, trace[c], Len(trace[c]) + 1)
        /\ Returned(c) => OwnOutcome(c)

\* A call that has not returned can take its next step whatever the other
\* calls are doing.
C13_NoWaiting ==
    \A c \in CallIds :
        (pc[c] # "done" /\ NumSends(c) < MaxAttempts) => ENABLED Step(c)

\* A step of one call leaves everything the other calls own as it was.
C13_Frame ==
    \A c \in CallIds, d \in CallIds :
        (c # d /\ pc'[c] # pc[c]) => CallState(d)' = CallState(d)

\* C13: concurrent calls on one transport are independent under every
\* interleaving: a call's requests carry only credentials returned to that
\* call, its outcome follows from its own responses and provider answers, a
\* step of one call changes nothing of another, and no call waits on another.
C13_CallsIndependent ==
    [](C13_OwnInputsOnly /\ C13_NoWaiting) /\ [][C13_Frame]_vars

C13_Witness ==
    \E c \in CallIds, d \in CallIds :
        /\ c # d
        /\ pc[c] = "await_response" /\ pc[d] = "await_response"
        /\ NumRequired(c) = 1 /\ NumRequired(d) = 1
        /\ http_request[c].authorization # http_request[d].authorization

\* C14 as stated: the attempts of a call are strictly sequential: the
\* requests handed to the connector never outnumber the responses received
\* by more than one, and every attempt after the first directly follows a
\* required() call that returned, itself directly following the 401 answer
\* to the previous attempt.
C14_StrictlySequential ==
    \A c \in CallIds :
        /\ NumSends(c) <= NumResponses(c) + 1
        /\ \A i \in DOMAIN trace[c] :
             (trace[c][i].ev = "send" /\ \E j \in 1..(i - 1) : trace[c][j].ev = "send")
                => /\ i > 3
                   /\ trace[c][i - 1].ev = "required"
                   /\ trace[c][i - 1].arg.answer.ok
                   /\ trace[c][i - 2] = ResponseEv(401)
                   /\ trace[c][i - 3].ev = "send"

\* C15: required(url) is invoked only right after a 401 answer to a request
\* of the same call, with the absolute url of that rejected request, which
\* is also the url cached() was asked about; a call never invokes required()
\* more often than it has received 401 answers.
C15_RequiredOnlyAfter401 ==
    \A c \in CallIds :
        /\ NumRequired(c) <= Num401(c)
        /\ \A i \in DOMAIN trace[c] :
             trace[c][i].ev = "required" =>
                /\ i >= 3
                /\ trace[c][i - 1] = ResponseEv(401)
                /\ trace[c][i - 2].ev = "send"
                /\ trace[c][i].arg.url = trace[c][i - 2].arg.url
                /\ trace[c][i].arg.url.path = WirePath(c)
                /\ trace[c][i].arg.url.scheme = url.scheme
                /\ trace[c][i].arg.url.host = url.host
                /\ trace[c][1].ev = "cached"
                /\ trace[c][1].arg.url = trace[c][i].arg.url

C15_Witness ==
    \E c \in CallIds :
        /\ NumRequired(c) = 2 /\ Num401(c) = 2
        /\ Last(trace[c]).ev = "required"

\* C16: when no provider is configured no call ever invokes cached() or
\* required(), whatever the peer answers, so the operations of
\* NoPasswordManager are never reached.
C16_NoProviderNeverAsked ==
    \A c \in CallIds :
        password_manager = None =>
            \A i \in DOMAIN trace[c] : trace[c][i].ev \notin {"cached", "required"}

C16_Witness ==
    \E c \in CallIds :
        /\ password_manager = None /\ Secure
        /\ Num401(c) = 2 /\ NumSends(c) = 3 /\ Returned(c)

\* A request without its Authorization header.
SansAuthorization(req) ==
    <<req.method, req.url, req.content_type, req.body>>

\* C17: all attempts of a call have the same method, absolute url, body and
\* Content-Type, which is application/cbor; only Authorization may differ
\* between two attempts.
C17_OnlyAuthorizationVaries ==
    \A c \in CallIds : \A i \in DOMAIN trace[c], j \in DOMAIN trace[c] :
        (trace[c][i].ev = "send" /\ trace[c][j].ev = "send")
            => /\ SansAuthorization(trace[c][i].arg) = SansAuthorization(trace[c][j].arg)
               /\ trace[c][i].arg.content_type = "application/cbor"

C17_Witness ==
    \E c \in CallIds :
        /\ NumSends(c) = 3
        /\ Events(c, "send")[1].arg.authorization # Events(c, "send")[2].arg.authorization
        /\ Events(c, "send")[2].arg.authorization # Events(c, "send")[3].arg.authorization
        /\ Events(c, "send")[3].arg.body = <<(<<8, 9>>)>>

\* The required() events of call c before position i of its trace.
RequiredBefore(c, i) ==
    SelectSeq(SubSeq(trace[c], 1, i - 1), LAMBDA e : e.ev = "required")

\* C18: the authentication state of a call only moves forward. cached() is
\* consulted at most once, as the first thing the call does, never after a
\* send or a 401. A request sent before any required() carries the cached
\* credential, or no Authorization when there was none; a request sent
\* after the n-th required() carries Basic of exactly the n-th credential,
\* the cached one and the earlier ones being overwritten.
C18_AuthStateForward ==
    \A c \in CallIds : \A i \in DOMAIN trace[c] :
        /\ trace[c][i].ev = "cached" => i = 1
        /\ trace[c][i].ev = "send" =>
             LET rs == RequiredBefore(c, i)
                 auth == trace[c][i].arg.authorization
             IN  IF Len(rs) > 0
                 THEN /\ Last(rs).arg.answer.ok
                      /\ IsBasicOf(auth, Last(rs).arg.answer.val)
                 ELSE IF trace[c][1].ev = "cached" /\ Len(trace[c][1].arg.answer.val) = 1
                 THEN IsBasicOf(auth, trace[c][1].arg.answer.val[1])
                 ELSE Len(auth) = 0

C18_Witness ==
    \E c \in CallIds :
        /\ NumSends(c) = 3 /\ NumRequired(c) = 2
        /\ trace[c][1].ev = "cached" /\ Len(trace[c][1].arg.answer.val) = 1
        /\ Events(c, "required")[1].arg.answer.val # trace[c][1].arg.answer.val[1]
        /\ Events(c, "required")[2].arg.answer.val = trace[c][1].arg.answer.val[1]

\* The status of the last response call c received; 0 before the first.
LastStatus(c) ==
    IF NumResponses(c) = 0 THEN 0 ELSE Last(Events(c, "response")).arg

\* No request was sent since the last response.
NothingSentSince(c) ==
    \A i \in DOMAIN trace[c] :
        trace[c][i].ev = "response" =>
            \/ \E j \in (i + 1)..Len(trace[c]) : trace[c][j].ev = "response"
            \/ \A j \in (i + 1)..Len(trace[c]) : trace[c][j].ev # "send"

\* C19: the terminal classification never sees a 401: execute returns
\* neither Ok nor HttpError on a 401 answer, and no HttpError carries status
\* 401; a call that returns on a 401 answer returns AuthenticationError or
\* CannotUseAuthenticationOnNonSecureUrl.
C19_No401Classified ==
    \A c \in CallIds :
        /\ result[c].kind = "HttpError" => result[c].payload.status # 401
        /\ result[c].kind \in {"Ok", "HttpError"} =>
             LastStatus(c) # 401 /\ status[c] # 401
        /\ (Returned(c) /\ LastStatus(c) = 401 /\ NothingSentSince(c)) =>
             result[c].kind \in {"AuthenticationError",
                                 "CannotUseAuthenticationOnNonSecureUrl"}

C19_Witness ==
    \E c \in CallIds :
        /\ Returned(c) /\ Num401(c) = 2 /\ LastStatus(c) = 404
        /\ result[c].kind = "HttpError"

C19_WitnessRefused ==
    \E c \in CallIds :
        Returned(c) /\ LastStatus(c) = 401 /\ NothingSentSince(c)

\* The peer answered the latest attempt of call c with a status other than
\* 401 and the call has not returned yet.
AnsweredOther(c) ==
    /\ pc[c] \in {"await_bytes", "check_status"}
    /\ peer[c].status # 401

\* The awaits and statements left before such a call returns.
Remaining(c) ==
    CASE pc[c] = "done" -> 0
      [] pc[c] = "check_status" -> 1
      [] pc[c] = "await_bytes" -> 2
      [] OTHER -> 3

Outcomes ==
    {"Ok", "HttpError", "TransportError", "AuthenticationError",
     "CannotUseAuthenticationOnNonSecureUrl"}

\* After an answer other than 401 the call can always take its next step,
\* and a call that is over holds one of the five outcomes.
C20_Progress ==
    \A c \in CallIds :
        /\ (AnsweredOther(c) /\ c \in SingleCall) => ENABLED Step(c)
        /\ ~Returned(c) => result[c] = NoResult
        /\ Returned(c) => result[c].kind \in Outcomes

\* Each step after an answer other than 401 brings the call nearer to its
\* return and neither sends a request nor asks the provider; a request that
\* is not the first is sent only after a 401 answer.
C20_Step ==
    \A c \in CallIds :
        /\ (AnsweredOther(c) /\ <<pc[c], trace[c]>> # <<pc[c], trace[c]>>') =>
             /\ Remaining(c)' < Remaining(c)
             /\ NumSends(c)' = NumSends(c)
             /\ NumRequired(c)' = NumRequired(c)
        /\ NumSends(c)' > NumSends(c) =>
             NumSends(c) = 0 \/ (peer[c].status = 401 /\ LastStatus(c) = 401)

\* C20: once the peer answers an attempt with a status other than 401,
\* execute returns after at most the body read and the classification,
\* without another request, and every call that returns holds exactly one of
\* Ok, HttpError, TransportError, AuthenticationError and
\* CannotUseAuthenticationOnNonSecureUrl.
C20_ReturnsAfterOtherStatus == []C20_Progress /\ [][C20_Step]_vars

C20_Witness ==
    \E c \in CallIds :
        /\ Returned(c) /\ Num401(c) = 2 /\ NumSends(c) = 3
        /\ LastStatus(c) = 503 /\ result[c].kind = "HttpError"

====
